---- MODULE Spec2Model ----
(***************************************************************************)
(* Model of src/main_ui.py: the RFID ingestion loop (reader_thread), the   *)
(* reconciliation against the attendance sheet (update_attendance_sheet)   *)
(* and the controller (RFIDApp.start_readers / stop_readers).              *)
(***************************************************************************)
EXTENDS Integers, Sequences, FiniteSets, TLC

(* ---------------------------------------------------------------- bounds *)
\* The wall clock runs from 0 (construction of RFIDApp) to at most MaxTime
\* seconds.
MaxTime == 6
\* Threads that can be spawned over the whole run (thread ids 1..MaxThreads).
MaxThreads == 2
\* Longest identifier, in bytes, of the canonicalization check.
MaxLen == 2

(* ------------------------------------------------------ program constants *)
\* "batch every 5 seconds": time.time() - app.last_update_time > 5
Interval == 5
\* thread.join(timeout=1)
JoinTimeout == 1

\* The instants at which the model looks at the clock: every TickSteps seconds.
TickSteps == {3}

Threads == 1..MaxThreads
NoOne == 0

\* Raw identifiers a reader can yield (bytes objects).
Tags == { <<170, 187, 204, 221>>, <<17, 34, 51, 68>>, <<153, 136, 119, 102>> }

\* What the operator can have typed in the port entries when Start is pressed
\* (the non-blank entries, stripped, in order).
PortInputs == { <<>>, <<"COM3">>, <<"COM3", "COM4">> }

(* ------------------------------------------------------------ pure helpers *)
HexDigit == << "0", "1", "2", "3", "4", "5", "6", "7",
               "8", "9", "A", "B", "C", "D", "E", "F" >>

\* The byte formatted without zero padding (format X).
HexByteNoPad(b) ==
    IF b < 16 THEN HexDigit[b + 1]
    ELSE HexDigit[(b \div 16) + 1] \o HexDigit[(b % 16) + 1]

\* f'{byte:02X}'
HexByte(b) == HexDigit[(b \div 16) + 1] \o HexDigit[(b % 16) + 1]

\* hex_tag = ''.join([f'{byte:02X}' for byte in tag])
RECURSIVE Hex(_)
Hex(tag) == IF tag = <<>> THEN "" ELSE HexByte(Head(tag)) \o Hex(Tail(tag))

Pad2(n) == IF n < 10 THEN "0" \o ToString(n) ELSE ToString(n)

\* datetime.now().strftime("%H:%M:%S"), the clock counted in seconds of the day
strftime(t) == Pad2((t \div 3600) % 24) \o ":" \o Pad2((t \div 60) % 60)
                  \o ":" \o Pad2(t % 60)

\* A row of the range A:E: column A the identifier, D the time, E the flag.
Row(id, tm, flag) == << id, "x", "y", tm, flag >>

\* The attendance sheet the run starts from: a row to mark, a row already
\* marked, a row whose flag is neither "NO" nor "YES", and a second row for the
\* first identifier.
Sheets == { << Row("AABBCCDD", "", "NO"),
               Row("11223344", "08:00:00", "YES"),
               Row("99887766", "", ""),
               Row("AABBCCDD", "", "NO") >> }

\* detected_uids.add(hex_tag)
SetAddLost(s, x) == {x}
SetAdd(s, x) == s \cup {x}

RECURSIVE StageFrom(_, _, _, _)
\* The loop of update_attendance_sheet over enumerate(rows), from row i on.
StageFrom(rows, i, uids, t) ==
    IF i > Len(rows) THEN <<>>
    ELSE (IF rows[i][1] \in uids /\ rows[i][5] = "NO"
            THEN << [row |-> i, cols |-> <<4, 5>>,
                     values |-> << strftime(t), "YES" >>] >>
            ELSE <<>>) \o StageFrom(rows, i + 1, uids, t)

RECURSIVE StageNotYes(_, _, _, _)
StageNotYes(rows, i, uids, t) ==
    IF i > Len(rows) THEN <<>>
    ELSE (IF rows[i][1] \in uids /\ rows[i][5] # "YES"
            THEN << [row |-> i, cols |-> <<4, 5>>,
                     values |-> << strftime(t), "YES" >>] >>
            ELSE <<>>) \o StageNotYes(rows, i + 1, uids, t)

RECURSIVE StageNoFlagTest(_, _, _, _)
StageNoFlagTest(rows, i, uids, t) ==
    IF i > Len(rows) THEN <<>>
    ELSE (IF rows[i][1] \in uids
            THEN << [row |-> i, cols |-> <<4, 5>>,
                     values |-> << strftime(t), "YES" >>] >>
            ELSE <<>>) \o StageNoFlagTest(rows, i + 1, uids, t)

\* The staging loop testing row[4] != "YES".
StagedNotYes(rows, uids, t) == StageNotYes(rows, 1, uids, t)

\* The staging loop without the test of the flag.
StagedNoFlagTest(rows, uids, t) == StageNoFlagTest(rows, 1, uids, t)

\* updates, as update_attendance_sheet builds it from rows and detected_uids
StagedUpdates(rows, uids, t) == StageFrom(rows, 1, uids, t)

RECURSIVE ApplyUpdates(_, _)
\* spreadsheets().values().batchUpdate: each range D{i}:E{i} gets its values
ApplyUpdates(rows, ups) ==
    IF ups = <<>> THEN rows
    ELSE LET u == Head(ups)
             r == rows[u.row]
         IN  ApplyUpdates(
                [rows EXCEPT ![u.row] =
                    << r[1], r[2], r[3], u.values[1], u.values[2] >>],
                Tail(ups))

(* ------------------------------------------------------------------ state *)
VARIABLES
    running,           \* self.running[0]
    reader_configs,    \* self.reader_configs (the ports)
    threads,           \* self.threads (sequence of thread ids)
    joinIdx,           \* stop_readers: index of the thread being joined, 0 = not in stop
    waited,            \* stop_readers: seconds spent so far in joins that timed out
    pc,                \* position of each thread in reader_thread
    chan,              \* each thread's serial channel: "none", "open", "closed"
    port,              \* each thread's port argument
    tag,               \* each thread's current tag (raw bytes), <<>> before the first
    err,               \* the exception that ended the thread, "none" if none
    updates,           \* each thread's staged updates inside update_attendance_sheet
    matched,           \* the identifiers the thread's pass matched against the rows
    detected_uids,     \* app.detected_uids
    seen,              \* raw tags inserted since detected_uids was last cleared
    lock,              \* holder of app.lock, NoOne if free
    last_update_time,  \* app.last_update_time
    total_updates,     \* app.total_updates
    now,               \* time.time()
    sheet              \* the rows of the remote sheet

ctlVars == << running, reader_configs, threads, joinIdx, waited >>
thrVars == << pc, chan, port, tag, err, updates, matched >>
shrVars == << detected_uids, seen, lock, last_update_time, total_updates >>
vars == << running, reader_configs, threads, joinIdx, waited,
           pc, chan, port, tag, err, updates, matched,
           detected_uids, seen, lock, last_update_time, total_updates,
           now, sheet >>

\* hex_tag = ''.join([f'{byte:02X}' for byte in tag]), of thread t
hex_tag(t) == Hex(tag[t])

Terminated == { "unspawned", "failed", "closed" }
Alive(t) == pc[t] \notin Terminated
Unspawned == { t \in Threads : pc[t] = "unspawned" }

\* RFIDApp.__init__, with the sheet as it is when the program starts
Init ==
    /\ running = FALSE
    /\ reader_configs = <<>>
    /\ threads = <<>>
    /\ joinIdx = 0
    /\ waited = 0
    /\ pc = [t \in Threads |-> "unspawned"]
    /\ chan = [t \in Threads |-> "none"]
    /\ port = [t \in Threads |-> ""]
    /\ tag = [t \in Threads |-> <<>>]
    /\ err = [t \in Threads |-> "none"]
    /\ updates = [t \in Threads |-> <<>>]
    /\ matched = [t \in Threads |-> {}]
    /\ detected_uids = {}
    /\ seen = {}
    /\ lock = NoOne
    /\ now = 0
    /\ last_update_time = 0
    /\ total_updates = 0
    /\ sheet \in Sheets

(* ------------------------------------------------------------- controller *)
\* The thread ids start_readers gives to n new threads.
FirstFree == MaxThreads - Cardinality(Unspawned) + 1
NewThreads(n) == [i \in 1..n |-> FirstFree + i - 1]

\* RFIDApp.start_readers, entries the non-blank port entries
start_readers(entries) ==
    /\ joinIdx = 0
    /\ running \/ Len(entries) <= Cardinality(Unspawned)
    /\ IF running
         THEN \* messagebox.showwarning("Readers are already running."); return
              UNCHANGED << running, reader_configs, threads, pc, port >>
         ELSE /\ reader_configs' =
                    [i \in 1..Len(entries) |-> [port |-> entries[i], baudrate |-> 57600]]
              /\ IF entries = <<>>
                   THEN \* messagebox.showerror("Please enter at least one port."); return
                        UNCHANGED << running, threads, pc, port >>
                   ELSE /\ running' = TRUE
                        /\ threads' = NewThreads(Len(entries))
                        /\ pc' = [t \in Threads |->
                                    IF \E i \in 1..Len(entries) : threads'[i] = t
                                      THEN "open" ELSE pc[t]]
                        /\ port' = [t \in Threads |->
                                    IF \E i \in 1..Len(entries) : threads'[i] = t
                                      THEN entries[t - FirstFree + 1] ELSE port[t]]
    /\ UNCHANGED << joinIdx, waited, chan, tag, err, updates, matched, shrVars, now, sheet >>

\* RFIDApp.stop_readers up to the join loop
stop_readers ==
    /\ joinIdx = 0
    /\ IF ~running
         THEN \* messagebox.showwarning("Readers are not running."); return
              UNCHANGED << running, joinIdx >>
         ELSE /\ running' = FALSE
              /\ joinIdx' = 1
    /\ UNCHANGED << reader_configs, threads, waited, thrVars, shrVars, now, sheet >>

\* thread.join(timeout=1) returns because the thread has ended
JoinReturns ==
    /\ joinIdx \in 1..Len(threads)
    /\ ~Alive(threads[joinIdx])
    /\ joinIdx' = joinIdx + 1
    /\ UNCHANGED << running, reader_configs, threads, waited, thrVars, shrVars, now, sheet >>

\* thread.join() without a timeout: it returns only when the thread has ended.
JoinWaitsForever ==
    /\ joinIdx \in 1..Len(threads)
    /\ Alive(threads[joinIdx])
    /\ FALSE
    /\ UNCHANGED vars

\* thread.join(timeout=1) gives up, after the timeout, on a thread that is
\* still alive
JoinTimesOut ==
    /\ joinIdx \in 1..Len(threads)
    /\ Alive(threads[joinIdx])
    /\ joinIdx' = joinIdx + 1
    /\ waited' = waited + JoinTimeout
    /\ UNCHANGED << running, reader_configs, threads, thrVars, shrVars, now, sheet >>

\* The end of stop_readers also zeroing the counter.
StopFinishResetsCounter ==
    /\ joinIdx = Len(threads) + 1
    /\ threads' = <<>>
    /\ joinIdx' = 0
    /\ waited' = 0
    /\ total_updates' = 0
    /\ UNCHANGED << running, reader_configs, thrVars, detected_uids, seen, lock,
                    last_update_time, now, sheet >>

\* the end of stop_readers: self.threads = [] (and the "Readers stopped." box)
StopFinish ==
    /\ joinIdx = Len(threads) + 1
    /\ threads' = <<>>
    /\ joinIdx' = 0
    /\ waited' = 0
    /\ UNCHANGED << running, reader_configs, thrVars, shrVars, now, sheet >>

(* --------------------------------------------------------- reader_thread *)
\* SerialTransport(port, baudrate); Reader(transport)
Open(t) ==
    /\ pc[t] = "open"
    /\ chan' = [chan EXCEPT ![t] = "open"]
    /\ pc' = [pc EXCEPT ![t] = "while"]
    /\ UNCHANGED << ctlVars, port, tag, err, updates, matched, shrVars, now, sheet >>

\* The same two lines raising: they stand before the try, so the thread ends
\* there with no channel to close.
OpenFails(t) ==
    /\ pc[t] = "open"
    /\ err' = [err EXCEPT ![t] = "open"]
    /\ pc' = [pc EXCEPT ![t] = "failed"]
    /\ UNCHANGED << ctlVars, chan, port, tag, updates, matched, shrVars, now, sheet >>

\* The loop test passing whatever the flag says.
WhileIgnoresFlag(t) ==
    /\ pc[t] = "while"
    /\ pc' = [pc EXCEPT ![t] = "for"]
    /\ UNCHANGED << ctlVars, chan, port, tag, err, updates, matched, shrVars, now, sheet >>

\* while running_flag[0]: tags = reader.inventory_answer_mode(); when the flag
\* is cleared the loop ends and finally: reader.close() runs
While(t) ==
    /\ pc[t] = "while"
    /\ IF running
         THEN /\ pc' = [pc EXCEPT ![t] = "for"]
              /\ UNCHANGED chan
         ELSE /\ pc' = [pc EXCEPT ![t] = "closed"]
              /\ chan' = [chan EXCEPT ![t] = "closed"]
    /\ UNCHANGED << ctlVars, port, tag, err, updates, matched, shrVars, now, sheet >>

\* The tag taken without the test of the flag inside the for loop.
ForNextNoBreak(t, b) ==
    /\ pc[t] = "for"
    /\ tag' = [tag EXCEPT ![t] = b]
    /\ pc' = [pc EXCEPT ![t] = "insert"]
    /\ UNCHANGED << ctlVars, chan, port, err, updates, matched, shrVars, now, sheet >>

\* for tag in tags: the reader yields tag b; if not running_flag[0]: break;
\* hex_tag = ...
ForNext(t, b) ==
    /\ pc[t] = "for"
    /\ IF running
         THEN /\ tag' = [tag EXCEPT ![t] = b]
              /\ pc' = [pc EXCEPT ![t] = "insert"]
         ELSE /\ pc' = [pc EXCEPT ![t] = "while"]
              /\ UNCHANGED tag
    /\ UNCHANGED << ctlVars, chan, port, err, updates, matched, shrVars, now, sheet >>

\* for tag in tags: the batch is exhausted
ForExhausted(t) ==
    /\ pc[t] = "for"
    /\ pc' = [pc EXCEPT ![t] = "while"]
    /\ UNCHANGED << ctlVars, chan, port, tag, err, updates, matched, shrVars, now, sheet >>

\* The read fails and the thread ends with the reader left open.
ReadFailsNoClose(t) ==
    /\ pc[t] = "for"
    /\ err' = [err EXCEPT ![t] = "read"]
    /\ pc' = [pc EXCEPT ![t] = "failed"]
    /\ UNCHANGED << ctlVars, chan, port, tag, updates, matched, shrVars, now, sheet >>

\* for tag in tags: the device read raises; except Exception as e: print(...);
\* finally: reader.close()
ReadFails(t) ==
    /\ pc[t] = "for"
    /\ err' = [err EXCEPT ![t] = "read"]
    /\ chan' = [chan EXCEPT ![t] = "closed"]
    /\ pc' = [pc EXCEPT ![t] = "failed"]
    /\ UNCHANGED << ctlVars, port, tag, updates, matched, shrVars, now, sheet >>

\* The insert done without waiting for the lock.
InsertUnlocked(t) ==
    /\ pc[t] = "insert"
    /\ detected_uids' = SetAdd(detected_uids, hex_tag(t))
    /\ seen' = seen \cup {tag[t]}
    /\ pc' = [pc EXCEPT ![t] = "notify"]
    /\ UNCHANGED << ctlVars, chan, port, tag, err, updates, matched,
                    lock, last_update_time, total_updates, now, sheet >>

\* with lock: detected_uids.add(hex_tag)
\* (the lock is taken and released within the step)
Insert(t) ==
    /\ pc[t] = "insert"
    /\ lock = NoOne
    /\ detected_uids' = SetAdd(detected_uids, hex_tag(t))
    /\ seen' = seen \cup {tag[t]}
    /\ pc' = [pc EXCEPT ![t] = "notify"]
    /\ UNCHANGED << ctlVars, chan, port, tag, err, updates, matched,
                    lock, last_update_time, total_updates, now, sheet >>

\* update_uid_count(len(detected_uids)); update_rfid_display(hex_tag);
\* if time.time() - app.last_update_time > 5; when not, time.sleep(0.05) and
\* the for loop goes on. The lock is not held here.
\* (tag and hex_tag are not read again before the next iteration assigns them)
Notify(t) ==
    /\ pc[t] = "notify"
    /\ tag' = [tag EXCEPT ![t] = <<>>]
    /\ pc' = [pc EXCEPT ![t] =
                IF now - last_update_time > Interval THEN "flush" ELSE "for"]
    /\ UNCHANGED << ctlVars, chan, port, err, updates, matched, shrVars, now, sheet >>

\* The pass begun without waiting for the lock.
FetchUnlocked(t) ==
    /\ pc[t] = "flush"
    /\ lock' = t
    /\ updates' = [updates EXCEPT ![t] = StagedUpdates(sheet, detected_uids, now)]
    /\ matched' = [matched EXCEPT ![t] = detected_uids]
    /\ pc' = [pc EXCEPT ![t] = IF updates'[t] # <<>> THEN "write" ELSE "set_time"]
    /\ UNCHANGED << ctlVars, chan, port, tag, err,
                    detected_uids, seen, last_update_time, total_updates, now, sheet >>

\* with lock: (line 86) the lock is acquired; update_attendance_sheet:
\* rows = get_google_sheet_data() and the staging loop; with nothing staged it
\* returns False
Fetch(t) ==
    /\ pc[t] = "flush"
    /\ lock = NoOne
    /\ lock' = t
    /\ updates' = [updates EXCEPT ![t] = StagedUpdates(sheet, detected_uids, now)]
    /\ matched' = [matched EXCEPT ![t] = detected_uids]
    /\ pc' = [pc EXCEPT ![t] = IF updates'[t] # <<>> THEN "write" ELSE "set_time"]
    /\ UNCHANGED << ctlVars, chan, port, tag, err,
                    detected_uids, seen, last_update_time, total_updates, now, sheet >>

\* A RemoteStore call raises: the exception leaves update_attendance_sheet and
\* the with block (which releases the lock) and the loops, and reaches
\* except Exception as e: print(...); finally: reader.close()
RemoteFails(t) ==
    /\ lock' = NoOne
    /\ err' = [err EXCEPT ![t] = "remote"]
    /\ updates' = [updates EXCEPT ![t] = <<>>]
    /\ matched' = [matched EXCEPT ![t] = {}]
    /\ chan' = [chan EXCEPT ![t] = "closed"]
    /\ pc' = [pc EXCEPT ![t] = "failed"]
    /\ UNCHANGED << ctlVars, port, tag,
                    detected_uids, seen, last_update_time, total_updates, now, sheet >>

\* with lock: (line 86) the lock is acquired; get_google_sheet_data() raises
FetchFails(t) ==
    /\ pc[t] = "flush"
    /\ lock = NoOne
    /\ RemoteFails(t)

\* The counter incremented by the number of rows written.
WriteCountsRows(t) ==
    /\ pc[t] = "write"
    /\ sheet' = ApplyUpdates(sheet, updates[t])
    /\ total_updates' = total_updates + Len(updates[t])
    /\ detected_uids' = {}
    /\ seen' = {}
    /\ pc' = [pc EXCEPT ![t] = "set_time"]
    /\ UNCHANGED << ctlVars, chan, port, tag, err, updates, matched,
                    lock, last_update_time, now >>

\* if updates: batchUpdate(...).execute() succeeds; return True;
\* app.total_updates += len(detected_uids); detected_uids.clear()
Write(t) ==
    /\ pc[t] = "write"
    /\ sheet' = ApplyUpdates(sheet, updates[t])
    /\ total_updates' = total_updates + Cardinality(detected_uids)
    /\ detected_uids' = {}
    /\ seen' = {}
    /\ pc' = [pc EXCEPT ![t] = "set_time"]
    /\ UNCHANGED << ctlVars, chan, port, tag, err, updates, matched,
                    lock, last_update_time, now >>

\* batchUpdate(...).execute() raises: nothing of the batch is written
WriteFails(t) ==
    /\ pc[t] = "write"
    /\ RemoteFails(t)

\* The time set only at the end of a pass that staged updates.
SetTimeIfStaged(t) ==
    /\ pc[t] = "set_time"
    /\ last_update_time' = IF updates[t] # <<>> THEN now ELSE last_update_time
    /\ lock' = NoOne
    /\ updates' = [updates EXCEPT ![t] = <<>>]
    /\ matched' = [matched EXCEPT ![t] = {}]
    /\ pc' = [pc EXCEPT ![t] = "for"]
    /\ UNCHANGED << ctlVars, chan, port, tag, err,
                    detected_uids, seen, total_updates, now, sheet >>

\* app.last_update_time = time.time(); the with block releases the lock;
\* time.sleep(0.05) and the for loop goes on
SetTime(t) ==
    /\ pc[t] = "set_time"
    /\ last_update_time' = now
    /\ lock' = NoOne
    /\ updates' = [updates EXCEPT ![t] = <<>>]
    /\ matched' = [matched EXCEPT ![t] = {}]
    /\ pc' = [pc EXCEPT ![t] = "for"]
    /\ UNCHANGED << ctlVars, chan, port, tag, err,
                    detected_uids, seen, total_updates, now, sheet >>

\* the wall clock advances
Tick ==
    /\ \E d \in TickSteps : now + d <= MaxTime /\ now' = now + d
    /\ UNCHANGED << ctlVars, thrVars, shrVars, sheet >>

Next ==
    \/ \E entries \in PortInputs : start_readers(entries)
    \/ stop_readers
    \/ JoinReturns
    \/ JoinTimesOut
    \/ StopFinish
    \/ Tick
    \/ \E t \in Threads :
         \/ Open(t)
         \/ OpenFails(t)
         \/ While(t)
         \/ \E b \in Tags : ForNext(t, b)
         \/ ForExhausted(t)
         \/ ReadFails(t)
         \/ Insert(t)
         \/ Notify(t)
         \/ Fetch(t)
         \/ FetchFails(t)
         \/ Write(t)
         \/ WriteFails(t)
         \/ SetTime(t)

Spec == Init /\ [][Next]_vars

(* ----------------------------------------------------------------- claims *)
Polling(t) == pc[t] \in { "while", "for", "insert", "notify", "flush",
                          "write", "set_time" }
\* The step in which thread t's reconciliation pass ends with a RemoteStore error.
RemoteFailure(t) == err[t] = "none" /\ err'[t] = "remote"
\* The step in which thread t fails on its device (open or read).
DeviceFailure(t) == err[t] = "none" /\ err'[t] \in { "open", "read" }
\* The step in which thread t takes the lock and calls get_google_sheet_data.
FetchStep(t) == pc[t] = "flush" /\ pc'[t] # "flush"
\* The step in which thread t's staging loop runs (the fetch did not raise).
StageStep(t) == pc[t] = "flush" /\ pc'[t] \in { "write", "set_time" }
\* The rows a batch of updates writes.
StagedRows(ups) == { ups[k].row : k \in 1..Len(ups) }

\* C1: whenever a thread calls get_google_sheet_data (fetch_rows), more than
\* Interval seconds have passed since last_update_time was set.
C1_FetchSpacedByInterval ==
    [][\A t \in Threads : FetchStep(t) => now - last_update_time > Interval]_vars

\* C2: in the step in which a RemoteStore call raises, detected_uids and
\* total_updates are unchanged and last_update_time is set to the current time.
C2_RemoteFailureAdvancesWindow ==
    [][\A t \in Threads : RemoteFailure(t) =>
          /\ detected_uids' = detected_uids
          /\ total_updates' = total_updates
          /\ last_update_time' = now]_vars

\* C3: a thread whose reconciliation pass raised a RemoteStore error is still in
\* its polling loop with its channel open.
C3_RemoteFailureKeepsPolling ==
    \A t \in Threads : err[t] = "remote" => Polling(t) /\ chan[t] = "open"

\* C4: a thread that is at a statement reading or writing detected_uids (len,
\* the staging loop, len and clear) or last_update_time (the interval test, the
\* assignment) holds the lock. (The add itself takes the lock within its step.)
C4_SharedAccessUnderLock ==
    \A t \in Threads :
        pc[t] \in { "notify", "write", "set_time" } => lock = t

\* C5: detected_uids is exactly the set of the canonical forms of the tags
\* inserted since it was last cleared, one member for each distinct tag.
C5_SetIsDistinctInserted ==
    /\ detected_uids = { Hex(b) : b \in seen }
    /\ Cardinality(detected_uids) = Cardinality(seen)

\* Two threads have inserted the same tag, a duplicate, and the set holds the
\* three distinct identifiers inserted.
C5_Witness ==
    /\ \E t, u \in Threads :
          t # u /\ pc[t] = "notify" /\ pc[u] = "notify" /\ tag[t] = tag[u]
    /\ seen = Tags
    /\ Cardinality(detected_uids) = 3

\* C6: the staging loop of a pass stages no update for a row whose flag is
\* "YES", nor for a row whose identifier is not in detected_uids.
C6_NoStageForPresentOrAbsent ==
    [][\A t \in Threads : StageStep(t) =>
          \A i \in 1..Len(sheet) :
              (sheet[i][5] = "YES" \/ sheet[i][1] \notin detected_uids)
                  => i \notin StagedRows(updates'[t])]_vars

\* A pass has run over a sheet holding a "YES" row whose identifier is in
\* detected_uids, and has staged an update for another row.
C6_Witness ==
    \E t \in Threads :
        /\ pc[t] = "write"
        /\ \E i \in 1..Len(sheet) : sheet[i][5] = "YES" /\ sheet[i][1] \in matched[t]
        /\ updates[t] # <<>>

\* C7 as stated: every row whose identifier is in detected_uids and whose flag
\* is anything but "YES" gets an update staged.
C7_StageForEveryNonPresent ==
    [][\A t \in Threads : StageStep(t) =>
          \A i \in 1..Len(sheet) :
              (sheet[i][5] # "YES" /\ sheet[i][1] \in detected_uids)
                  => i \in StagedRows(updates'[t])]_vars

\* C7 amended: every row whose identifier is in detected_uids and whose flag is
\* exactly "NO" gets one update staged, for its columns D and E, with the
\* current time as HH:MM:SS and "YES"; a row with any other flag gets none.
C7_StageForEveryNo ==
    [][\A t \in Threads : StageStep(t) =>
          \A i \in 1..Len(sheet) :
              /\ (sheet[i][5] = "NO" /\ sheet[i][1] \in detected_uids)
                    => /\ Cardinality({ k \in 1..Len(updates'[t]) :
                                          updates'[t][k].row = i }) = 1
                       /\ \A k \in 1..Len(updates'[t]) : updates'[t][k].row = i =>
                             /\ updates'[t][k].cols = <<4, 5>>
                             /\ updates'[t][k].values = << strftime(now), "YES" >>
              /\ sheet[i][5] # "NO" => i \notin StagedRows(updates'[t])]_vars

\* A pass has staged updates for the two "NO" rows at once, over a set that
\* also holds the identifier of the row whose flag is empty.
C7_Witness ==
    \E t \in Threads :
        /\ pc[t] = "write" /\ Len(updates[t]) = 2
        /\ \E i \in 1..Len(sheet) : sheet[i][5] = "" /\ sheet[i][1] \in matched[t]

\* C8: detected_uids is cleared and total_updates changes only in the commit
\* step of a pass that staged an update and whose write succeeded; the
\* increment is the size of the set the pass matched and the set is empty
\* afterwards; a successful write is always followed by that commit; a pass
\* that stages nothing goes to its end with both unchanged.
C8_CommitIffStagedAndWritten ==
    [][/\ (total_updates' # total_updates \/ (detected_uids # {} /\ detected_uids' = {}))
            => \E t \in Threads :
                  /\ pc[t] = "write" /\ pc'[t] = "set_time"
                  /\ updates[t] # <<>>
                  /\ total_updates' = total_updates + Cardinality(matched[t])
                  /\ detected_uids' = {}
       /\ \A t \in Threads :
            /\ pc[t] = "write" /\ pc'[t] # "write" /\ err'[t] = "none"
                  => /\ updates[t] # <<>>
                     /\ total_updates' = total_updates + Cardinality(matched[t])
                     /\ detected_uids' = {}
            /\ pc[t] = "flush" /\ pc'[t] = "set_time"
                  => /\ updates'[t] = <<>>
                     /\ detected_uids' = detected_uids
                     /\ total_updates' = total_updates
            /\ pc[t] = "set_time" /\ pc'[t] # "set_time"
                  => /\ detected_uids' = detected_uids
                     /\ total_updates' = total_updates]_vars

\* A pass has committed: three identifiers counted for two rows written.
C8_Witness ==
    \E t \in Threads :
        /\ pc[t] = "set_time"
        /\ Len(updates[t]) = 2
        /\ Cardinality(matched[t]) = 3
        /\ total_updates = 3
        /\ detected_uids = {}

\* C9: from the staging loop of a pass to its clear, detected_uids is the set
\* the pass matched against the rows, so the clear removes nothing else.
C9_ClearRemovesOnlyMatched ==
    /\ \A t \in Threads : pc[t] = "write" => detected_uids = matched[t]
    /\ \A t \in Threads : pc[t] = "set_time" /\ updates[t] # <<>> => detected_uids = {}

\* A pass is about to clear a non-empty set while another thread waits to insert.
C9_Witness ==
    \E t, u \in Threads :
        /\ pc[t] = "write" /\ detected_uids # {}
        /\ pc[u] = "insert" /\ Hex(tag[u]) \notin detected_uids

\* C10: a thread that fails on its device ends without the lock, with its
\* channel closed if it was opened; the step leaves running and every other
\* thread as they were; no ended thread holds the lock.
C10_DeviceFailureIsolated ==
    /\ [][\A t \in Threads : DeviceFailure(t) =>
            /\ lock' # t
            /\ lock' = lock
            /\ running' = running
            /\ \A u \in Threads \ {t} :
                  pc'[u] = pc[u] /\ chan'[u] = chan[u] /\ err'[u] = err[u]]_vars
    /\ [](\A t \in Threads :
            /\ pc[t] \in { "failed", "closed", "unspawned" } => lock # t
            /\ pc[t] = "failed" /\ err[t] = "read" => chan[t] = "closed"
            /\ pc[t] = "failed" /\ err[t] = "open" => chan[t] = "none")

\* One thread has failed reading its device while the other is polling, the
\* flag still set, and the lock is free for it.
C10_Witness ==
    \E t, u \in Threads :
        /\ pc[t] = "failed" /\ err[t] = "read" /\ chan[t] = "closed"
        /\ pc[u] = "insert" /\ running /\ lock = NoOne

\* The step is a start_readers call that is rejected (already running, or no
\* port entered) or a stop_readers call that is rejected (not running).
RejectedCall ==
    \/ \E entries \in PortInputs : (running \/ entries = <<>>) /\ start_readers(entries)
    \/ ~running /\ stop_readers

\* C11: a rejected start_readers or stop_readers leaves running, threads,
\* reader_configs, detected_uids, last_update_time and total_updates as they
\* were.
C11_RejectedCallMutatesNothing ==
    [][RejectedCall =>
          UNCHANGED << running, threads, reader_configs, detected_uids,
                       last_update_time, total_updates >>]_vars

\* A step of stop_readers after it has cleared the flag.
StopStep == joinIdx > 0 /\ joinIdx' # joinIdx
\* What C12 says of stop_readers apart from the length of the wait: the flag is
\* cleared before the joins, some step of stop_readers is always possible
\* whatever the threads do, its steps leave every thread as it is, and it ends
\* with the flag cleared and self.threads empty.
StopReturns ==
    /\ [](joinIdx > 0 =>
            /\ ~running
            /\ ENABLED (JoinReturns \/ JoinTimesOut \/ StopFinish))
    /\ [][StopStep =>
            /\ UNCHANGED << thrVars, shrVars >>
            /\ joinIdx' = 0 => ~running' /\ threads' = <<>>]_vars

\* C12 as stated: stop_readers returns, and the whole wait for the threads is no
\* longer than the timeout of 1 second.
C12_StopWaitsAtMostTimeout ==
    /\ StopReturns
    /\ [](waited <= JoinTimeout)

\* C12 amended: stop_readers returns, and the wait is no longer than the
\* timeout of 1 second for each thread of self.threads joined so far, so no
\* longer than 1 second times the number of threads in all.
C12_StopWaitsTimeoutPerThread ==
    /\ StopReturns
    /\ [](/\ joinIdx = 0 => waited = 0
          /\ joinIdx > 0 => waited <= JoinTimeout * (joinIdx - 1)
          /\ waited <= JoinTimeout * Len(threads))

\* stop_readers has gone through its joins with a thread still alive, blocked
\* on its reader.
C12_Witness ==
    /\ joinIdx = Len(threads) + 1
    /\ \E i \in 1..Len(threads) : pc[threads[i]] = "for"
    /\ waited = JoinTimeout

\* One step of thread t's reader_thread: any statement of its body, a return of
\* the device read (a tag, the end of the batch, or an error) or of a
\* RemoteStore call included.
reader_thread(t) ==
    \/ Open(t)
    \/ OpenFails(t)
    \/ While(t)
    \/ \E b \in Tags : ForNext(t, b)
    \/ ForExhausted(t)
    \/ ReadFails(t)
    \/ Insert(t)
    \/ Notify(t)
    \/ Fetch(t)
    \/ FetchFails(t)
    \/ Write(t)
    \/ WriteFails(t)
    \/ SetTime(t)

\* Fair scheduling: a thread that can take a step eventually takes one, so no
\* device read and no RemoteStore call blocks forever.
FairSpec == Spec /\ \A t \in Threads : WF_vars(reader_thread(t))

\* C13 as stated: a polling worker that meets the cleared flag ends in CLOSED;
\* in finite-run form, no polling worker ends in FAILED while the flag is
\* cleared (FAILED is final, so such a worker never reaches CLOSED).
C13_StoppedWorkerReachesClosed ==
    [][\A t \in Threads :
          ~running /\ Polling(t) /\ pc'[t] \in Terminated => pc'[t] = "closed"]_vars

\* C13 amended: under fair scheduling, once the flag is cleared every polling
\* worker terminates unless the flag is set again, takes no new identifier
\* while the flag is cleared, and ends with its channel released: in CLOSED,
\* or in FAILED when a device read or a RemoteStore call raised on the way.
C13_StoppedWorkerTerminates ==
    /\ \A t \in Threads :
         (~running /\ Polling(t)) ~> (running \/ ~Alive(t))
    /\ [][\A t \in Threads :
            /\ ~running /\ pc'[t] = "insert" => pc[t] = "insert"
            /\ Polling(t) /\ pc'[t] \in Terminated =>
                 /\ chan'[t] = "closed"
                 /\ pc'[t] = "failed" <=> err'[t] \in { "read", "remote" }]_vars

C13_Witness ==
    /\ ~running
    /\ \E t \in Threads : pc[t] = "closed" /\ chan[t] = "closed"
    /\ \E t \in Threads : pc[t] = "failed" /\ err[t] = "remote"

\* C14: total_updates never decreases, whatever the step (insert, pass, failed
\* pass, stop_readers, start_readers); the only step that changes it is the
\* commit of a pass, which adds the size of the set.
C14_TotalUpdatesNeverDecreases ==
    [][/\ total_updates' >= total_updates
       /\ total_updates' # total_updates =>
            \E t \in Threads :
              /\ pc[t] = "write" /\ pc'[t] = "set_time"
              /\ total_updates' = total_updates + Cardinality(detected_uids)]_vars

C14_Witness ==
    /\ total_updates > 0
    /\ running
    /\ Len(threads) = 1 /\ threads[1] = 2
    /\ \E t \in Threads : err[t] = "remote"

(* ------------------------------------------------------- canonicalization *)
\* Byte values an identifier is made of: both nibbles zero, one nibble zero,
\* digits and letters.
Bytes == { 0, 1, 16, 17, 171, 255 }

RECURSIVE BytesUpTo(_)
\* The byte sequences of length at most n.
BytesUpTo(n) ==
    IF n = 0 THEN { <<>> }
    ELSE LET S == BytesUpTo(n - 1)
         IN  S \cup { Append(x, b) : x \in S, b \in Bytes }

\* The ports of the two threads.
Ports2 == << "COM3", "COM4" >>

\* The two threads whose identifiers are compared.
Pair == { 1, 2 }

\* Two reader threads, each about to insert an identifier the reader yielded.
HexInit ==
    /\ running = TRUE
    /\ reader_configs = [i \in 1..2 |-> [port |-> Ports2[i], baudrate |-> 57600]]
    /\ threads = << 1, 2 >>
    /\ joinIdx = 0
    /\ waited = 0
    /\ pc = [t \in Threads |-> IF t \in Pair THEN "insert" ELSE "unspawned"]
    /\ chan = [t \in Threads |-> IF t \in Pair THEN "open" ELSE "none"]
    /\ port = [t \in Threads |-> IF t \in Pair THEN Ports2[t] ELSE ""]
    /\ tag \in { f \in [Threads -> BytesUpTo(MaxLen)] :
                   \A t \in Threads \ Pair : f[t] = <<>> }
    /\ err = [t \in Threads |-> "none"]
    /\ updates = [t \in Threads |-> <<>>]
    /\ matched = [t \in Threads |-> {}]
    /\ detected_uids = {}
    /\ seen = {}
    /\ lock = NoOne
    /\ now = 0
    /\ last_update_time = 0
    /\ total_updates = 0
    /\ sheet \in Sheets

HexNext == \E t \in Pair : Insert(t)

HexSpec == HexInit /\ [][HexNext]_vars

\* C15: two identifiers have the same canonical form exactly when they are the
\* same byte sequence, of equal or different length; so the set holds one
\* canonical form per distinct identifier inserted.
C15_HexInjective ==
    /\ \A t, u \in Pair : (hex_tag(t) = hex_tag(u)) <=> (tag[t] = tag[u])
    /\ \A a, b \in seen : (Hex(a) = Hex(b)) <=> (a = b)
    /\ detected_uids = { Hex(a) : a \in seen }
    /\ Cardinality(detected_uids) = Cardinality(seen)

C15_Witness ==
    /\ \A t \in Pair : pc[t] = "notify"
    /\ Len(tag[1]) # Len(tag[2])
    /\ tag[1] # <<>> /\ tag[2] # <<>>
    /\ Cardinality(detected_uids) = 2

\* The step in which thread t's reconciliation pass ends without a RemoteStore
\* error.
PassEnds(t) == pc[t] = "set_time" /\ pc'[t] # "set_time"

\* C16: last_update_time never decreases and changes only in the last step of a
\* pass of the thread holding the lock; a pass whose RemoteStore calls did not
\* raise always gets to that step, which sets last_update_time to the current
\* time, with updates staged or not.
C16_WindowSetByEveryPass ==
    /\ [](\A t \in Threads :
            /\ pc[t] = "set_time" => lock = t /\ ENABLED SetTime(t))
    /\ [][/\ last_update_time' >= last_update_time
          /\ last_update_time' # last_update_time =>
               \E t \in Threads : PassEnds(t) /\ lock = t
          /\ \A t \in Threads :
               /\ StageStep(t) => pc'[t] = "set_time" \/ updates'[t] # <<>>
               /\ pc[t] = "write" /\ pc'[t] # "write" =>
                    pc'[t] = "set_time" \/ RemoteFailure(t)
               /\ PassEnds(t) =>
                    /\ last_update_time' = now
                    /\ lock' = NoOne
                    /\ Polling(t)']_vars

\* A pass that staged nothing has set last_update_time.
C16_Witness ==
    /\ last_update_time = now /\ now > Interval
    /\ total_updates = 0
    /\ detected_uids # {}
    /\ \A t \in Threads : err[t] = "none"
    /\ lock = NoOne

\* Thread t is inside a reconciliation pass: it has fetched the rows and has
\* neither set last_update_time nor left with an error.
InPass(t) == pc[t] \in { "write", "set_time" }

\* C17: at most one thread is inside a reconciliation pass, it holds the lock,
\* and while it is inside no other thread begins a pass or inserts into
\* detected_uids.
C17_OnePassAtATime ==
    /\ [](\A t, u \in Threads :
            /\ InPass(t) /\ InPass(u) => t = u
            /\ InPass(t) => lock = t)
    /\ [][\A t, u \in Threads :
            InPass(t) /\ u # t =>
              /\ ~FetchStep(u)
              /\ ~(pc[u] = "insert" /\ pc'[u] # "insert")
              /\ detected_uids' # detected_uids => pc[t] = "write" /\ pc'[t] # "write"]_vars

\* One thread is inside a pass while another waits to begin its own.
C17_Witness ==
    \E t, u \in Threads : pc[t] = "write" /\ pc[u] = "flush"

\* Thread t was spawned by the latest start_readers that started the readers.
Current(t) == \E i \in 1..Len(threads) : threads[i] = t
\* The step in which thread t finds running_flag[0] true, at the while test or
\* at the test inside the for loop, and goes on polling.
PassesFlagTest(t) ==
    \/ pc[t] = "while" /\ pc'[t] = "for"
    \/ pc[t] = "for" /\ pc'[t] = "insert"

\* C18: only a thread spawned by the latest start_readers goes on polling: a
\* thread that stop_readers gave up joining never again finds the flag true.
C18_OnlyCurrentWorkersPoll ==
    [][\A t \in Threads : PassesFlagTest(t) => Current(t)]_vars

\* stop_readers has returned and start_readers has not been called since.
Stopped == ~running /\ joinIdx = 0

\* How far a thread is through the iteration it is in, an iteration that
\* meets the cleared flag ending in the while test and the close.
Progress(p) ==
    CASE p \in { "unspawned", "open" } -> 0
      [] p = "insert"   -> 1
      [] p = "notify"   -> 2
      [] p = "flush"    -> 3
      [] p = "write"    -> 4
      [] p = "set_time" -> 5
      [] p = "for"      -> 6
      [] p = "while"    -> 7
      [] p \in { "closed", "failed" } -> 8

\* C19 as stated: between the return of stop_readers and the next
\* start_readers no step inserts into detected_uids, fetches or writes the
\* sheet, clears the set, or changes last_update_time or total_updates.
C19_QuiescentAfterStop ==
    [][Stopped =>
         /\ UNCHANGED << detected_uids, last_update_time, total_updates, sheet >>
         /\ \A t \in Threads : ~FetchStep(t)]_vars

\* C19 amended: while the flag is cleared a thread only moves forward through
\* the iteration it is in (at most one insert and one pass, no new tag) to its
\* end, and once no thread is alive the shared state does not change.
C19_OnlyCurrentIterationAfterStop ==
    [][~running =>
         /\ \A t \in Threads :
              /\ ~PassesFlagTest(t)
              /\ Alive(t) /\ pc'[t] # pc[t] => Progress(pc'[t]) > Progress(pc[t])
         /\ (\A t \in Threads : ~Alive(t)) =>
              /\ UNCHANGED << detected_uids, last_update_time, total_updates, sheet >>
              /\ \A t \in Threads : ~FetchStep(t)]_vars

\* stop_readers has returned and a thread it gave up joining is inside a pass.
C19_Witness ==
    /\ Stopped
    /\ threads = <<>>
    /\ \E t \in Threads : pc[t] = "set_time" /\ lock = t /\ updates[t] # <<>>


====
